---- MODULE Spec2Model ----
(***************************************************************************)
(* Model of main.py: the Stripe webhook receiver.                          *)
(*                                                                         *)
(* payment_callback is a coroutine with exactly one suspension point, the  *)
(* `await request.body()` of line 102.  Everything before it (the log line *)
(* and the secret check) runs when the request is dispatched; everything   *)
(* after it (header check, verification, db.contains, db.insert, add_task, *)
(* building the response) is synchronous code and runs as one step of the  *)
(* event loop.  Background tasks run after the response of their request.  *)
(*                                                                         *)
(* The log file is modelled as the lines each request and each task        *)
(* writes, in order, kept with that request or task.                       *)
(***************************************************************************)
EXTENDS Integers, Sequences, FiniteSets, TLC

\* ---------------------------------------------------------------- bounds
MaxReq == 2            \* POST requests delivered in one behaviour

\* ---------------------------------------------------------------- values
None == "None"

Ids == {"evt_1", "evt_2"}

CHECKOUT == "checkout.session.completed"

PAYMENT == "payment_intent.succeeded"

Types == {CHECKOUT, PAYMENT, "some.future.event"}

Secrets == {"whsec_A", "whsec_B"}

\* A request body: bytes that either decode as UTF-8 into a JSON event
\* envelope carrying (or lacking) id and type, or do not decode at all.
Payloads ==
  [utf8 : {TRUE}, id : Ids, type : Types]
    \cup {[utf8 |-> TRUE, id |-> None, type |-> CHECKOUT],
          [utf8 |-> TRUE, id |-> "evt_1", type |-> None],
          [utf8 |-> FALSE, id |-> None, type |-> None]}

\* The stripe-signature header: absent, empty, or a signature of this
\* payload computed with some secret (named by the secret that signed).
Headers == {None, ""} \cup Secrets

\* Exceptions of the verification step.
TypeError == "TypeError"

UnicodeDecodeError == "UnicodeDecodeError"

SignatureVerificationError == "SignatureVerificationError"

\* Outcomes of a store operation: it returns, or it raises (disk I/O).
StoreFaults == {"none", "contains", "insert"}

\* What stripe.Event.retrieve(...).get("data", {}).get("object", {}) yields.
\*   "raise"   the remote call raises
\*   "nodata"  the event has "data": null, so .get raises AttributeError
\*   "null"    "object" is null: obj = None
\*   objects   a dict; only the fields the handlers read are kept
Objects ==
  [kind : {"object"}, customer_email : {None, "a@x"},
   details_email : {None}, customer : {"cus_1"},
   amount_received : {"500"}, amount : {None},
   currency : {"usd"}, id : {"obj_1"}]

NoObject(k) ==
  [kind |-> k, customer_email |-> None, details_email |-> None,
   customer |-> None, amount_received |-> None, amount |-> None,
   currency |-> None, id |-> None]

Fetched == {NoObject("raise"), NoObject("nodata"), NoObject("null")} \cup Objects

\* What stripe.Customer.retrieve(...).get("email") yields: the call raises,
\* the customer has no email, or it has one.
Lookups == {"raise", "c@x"}

\* The same inputs in full, for the Background Processor taken alone: every
\* combination of the fields the handlers read, and the empty dict that
\* .get("data", {}).get("object", {}) yields for an event without data.
AllObjects ==
  [kind : {"object"}, customer_email : {None, "a@x"},
   details_email : {None, "d@x"}, customer : {None, "cus_1"},
   amount_received : {None, "500"}, amount : {None, "700"},
   currency : {"usd"}, id : {"obj_1"}]
    \cup {NoObject("object")}

AllFetched ==
  {NoObject("raise"), NoObject("nodata"), NoObject("null")} \cup AllObjects

AllLookups == {"raise", None, "c@x"}

VARIABLES
  WEBHOOK_SECRET,   \* os.getenv("WEBHOOK_SECRET"), read once at import
  needsText,        \* the installed stripe-python rejects bytes payloads
  db,               \* the TinyDB table: sequence of {event_id, type}
  reqs,             \* the POST requests delivered so far
  tasks             \* background_tasks.add_task calls, in order

vars == <<WEBHOOK_SECRET, needsText, db, reqs, tasks>>

\* ------------------------------------------------------- the Event Store
\* The query never matches.
ContainsNever(store, event_id) ==
  FALSE

\* The query compares the wrong field.
ContainsWrongField(store, event_id) ==
  \E i \in 1..Len(store) : store[i].type = event_id

\* db.contains(Query().event_id == event_id)
Contains(store, event_id) ==
  \E i \in 1..Len(store) : store[i].event_id = event_id

\* The two values are stored under each other's key.
InsertSwapped(store, event_id, event_type) ==
  Append(store, [event_id |-> event_type, type |-> event_id])

\* db.insert({"event_id": event_id, "type": event_type})
Insert(store, event_id, event_type) ==
  Append(store, [event_id |-> event_id, type |-> event_type])

\* background_tasks.add_task(process_event_record, event_id, event_type)
AddTask(ts, event_id, event_type, r) ==
  Append(ts, [event_id |-> event_id, event_type |-> event_type, req |-> r,
              state |-> "scheduled", log |-> <<>>, lookups |-> 0,
              raised |-> FALSE])

\* ---------------------------------------------------------- verification
Raise(e) == [ok |-> FALSE, err |-> e, id |-> None, type |-> None]

\* The signature is not compared with the secret.
construct_event_unchecked(isBytes, payload, sig_header, secret) ==
  IF isBytes /\ needsText THEN Raise(TypeError)
  ELSE IF ~payload.utf8 THEN Raise(UnicodeDecodeError)
  ELSE [ok |-> TRUE, err |-> None, id |-> payload.id, type |-> payload.type]

\* stripe.Webhook.construct_event(payload, sig_header, secret): a library
\* that wants text raises TypeError on bytes; otherwise bytes are decoded,
\* the signature is checked against the secret, and the JSON envelope is
\* returned as the event.
construct_event(isBytes, payload, sig_header, secret) ==
  IF isBytes /\ needsText THEN Raise(TypeError)
  ELSE IF ~payload.utf8 THEN Raise(UnicodeDecodeError)
  ELSE IF sig_header # secret THEN Raise(SignatureVerificationError)
  ELSE [ok |-> TRUE, err |-> None, id |-> payload.id, type |-> payload.type]

\* The nested try/except TypeError: a second call on payload.decode("utf-8").
\* calls counts the calls of construct_event.
Verify(payload, sig_header) ==
  LET first == construct_event(TRUE, payload, sig_header, WEBHOOK_SECRET)
  IN  IF first.err # TypeError THEN [res |-> first, calls |-> 1]
      ELSE IF ~payload.utf8 THEN [res |-> Raise(UnicodeDecodeError), calls |-> 1]
      ELSE [res |-> construct_event(FALSE, payload, sig_header, WEBHOOK_SECRET),
            calls |-> 2]

\* ------------------------------------------------ responses, exceptions
\* raise HTTPException(status_code=..., detail=...)
HTTPException(status_code, detail) ==
  [exc |-> "HTTPException", status |-> status_code,
   body |-> [detail |-> detail]]

\* Any other exception raised inside the try block.
Exception(kind) ==
  [exc |-> kind, status |-> 0, body |-> [detail |-> None]]

\* return JSONResponse(status_code=200, content={"received": True, "duplicate": True})
DuplicateResponse ==
  [status |-> 200, body |-> [received |-> TRUE, duplicate |-> TRUE]]

\* return JSONResponse(status_code=200, content={"received": True})
AdmittedResponse ==
  [status |-> 200, body |-> [received |-> TRUE]]

\* The catch-all logs the error and answers as if the event was received.
ExceptSwallows(e) ==
  IF e.exc = SignatureVerificationError
    THEN [status |-> 400, body |-> [detail |-> "Invalid signature"],
          log |-> <<"warning: Invalid Stripe signature">>]
  ELSE IF e.exc = "HTTPException"
    THEN [status |-> e.status, body |-> e.body, log |-> <<>>]
  ELSE [status |-> 200, body |-> [received |-> TRUE],
        log |-> <<"exception: Unexpected error while handling webhook">>]

\* The clause re-raising HTTPException is missing: the catch-all takes it.
ExceptNoReraise(e) ==
  IF e.exc = SignatureVerificationError
    THEN [status |-> 400, body |-> [detail |-> "Invalid signature"],
          log |-> <<"warning: Invalid Stripe signature">>]
  ELSE [status |-> 500, body |-> [detail |-> "Webhook processing error"],
        log |-> <<"exception: Unexpected error while handling webhook">>]

\* The except clauses of the handler, in order: the response an exception
\* raised in the try block ends in, and the line logged for it.
Except(e) ==
  IF e.exc = SignatureVerificationError
    THEN [status |-> 400, body |-> [detail |-> "Invalid signature"],
          log |-> <<"warning: Invalid Stripe signature">>]
  ELSE IF e.exc = "HTTPException"
    THEN [status |-> e.status, body |-> e.body, log |-> <<>>]
  ELSE [status |-> 500, body |-> [detail |-> "Webhook processing error"],
        log |-> <<"exception: Unexpected error while handling webhook">>]

\* ------------------------------------------------------ payment_callback
\* How the try block ends: the response it returns or the exception it
\* raises, the calls of construct_event it made, what it learnt of the
\* event, whether db.contains returned, and the store and task list it
\* leaves.  Of a request that raised, the event's id is all that is kept.
Returns(resp, v, checked, store, ts, lines) ==
  [raised |-> FALSE, exc |-> Exception(None), status |-> resp.status,
   body |-> resp.body, calls |-> v.calls, event_id |-> v.res.id,
   event_type |-> v.res.type, checked |-> checked, db |-> store,
   tasks |-> ts, log |-> lines]

Raises(e, v, checked) ==
  [raised |-> TRUE, exc |-> e, status |-> 0, body |-> [pending |-> TRUE],
   calls |-> v.calls, event_id |-> v.res.id, event_type |-> None,
   checked |-> checked, db |-> db, tasks |-> tasks, log |-> <<>>]

\* The duplicate branch overwrites the stored type with the delivered one.
DuplicateUpdates(r, v) ==
  Returns(DuplicateResponse, v, "seen",
          [i \in 1..Len(db) |->
             IF db[i].event_id = v.res.id
               THEN [db[i] EXCEPT !.type = v.res.type] ELSE db[i]],
          tasks, <<"info: Duplicate event received">>)

\* The duplicate branch schedules the task again.
DuplicateReschedules(r, v) ==
  Returns(DuplicateResponse, v, "seen", db,
          AddTask(tasks, v.res.id, v.res.type, r),
          <<"info: Duplicate event received">>)

\* The branch of a known event id: log, answer duplicate.
Duplicate(r, v) ==
  Returns(DuplicateResponse, v, "seen", db, tasks,
          <<"info: Duplicate event received">>)

\* The admitting branch answers without having inserted the record.
AdmitNoInsert(r, v) ==
  Returns(AdmittedResponse, v, "new", db,
          AddTask(tasks, v.res.id, v.res.type, r), <<>>)

\* The admitting branch forgets add_task.
AdmitNoTask(r, v) ==
  Returns(AdmittedResponse, v, "new",
          Insert(db, v.res.id, v.res.type), tasks, <<>>)

\* The branch of a new event id: insert, add_task, answer.
Admit(r, v) ==
  Returns(AdmittedResponse, v, "new",
          Insert(db, v.res.id, v.res.type),
          AddTask(tasks, v.res.id, v.res.type, r), <<>>)

\* The try block from the point where `await request.body()` resumes.
\* fault names the store operation that raises, if it is reached.
TryBlock(r, payload, sig_header, fault) ==
  LET v == Verify(payload, sig_header)
      unverified == [res |-> Raise(None), calls |-> 0]
  IN  IF sig_header \in {None, ""}
        THEN Raises(HTTPException(400, "Missing stripe-signature header"),
                    unverified, "unchecked")
      ELSE IF ~v.res.ok
        THEN Raises(Exception(v.res.err), v, "unchecked")
      ELSE IF v.res.id = None \/ v.res.type = None
        THEN Raises(HTTPException(400, "Malformed event (missing id/type)"),
                    v, "unchecked")
      ELSE IF fault = "contains"
        THEN Raises(Exception("OSError"), v, "unchecked")
      ELSE IF Contains(db, v.res.id)
        THEN Duplicate(r, v)
      ELSE IF fault = "insert"
        THEN Raises(Exception("OSError"), v, "new")
      ELSE Admit(r, v)

\* The handler after the secret check: the try block and its except clauses.
Callback(r, payload, sig_header, fault) ==
  LET t == TryBlock(r, payload, sig_header, fault)
      x == Except(t.exc)
  IN  IF t.raised
        THEN [t EXCEPT !.status = x.status, !.body = x.body, !.log = x.log]
        ELSE t

\* A request that has been dispatched and has not responded yet.  Only what
\* identifies the case it ended in is kept of a request once it is done:
\* its header, whether its body decoded, and the id and type of its event.
Pending(sig_header) ==
  [pc |-> "await_body", sig_header |-> sig_header, status |-> 0,
   body |-> [pending |-> TRUE], bodyRead |-> FALSE, utf8 |-> FALSE,
   calls |-> 0, event_id |-> None, event_type |-> None,
   checked |-> "unchecked",
   log |-> <<"info: POST /api/payment/callback">>]

\* The secret check is missing.
ArriveUnchecked(sig_header) ==
  /\ Len(reqs) < MaxReq
  /\ reqs' = Append(reqs, Pending(sig_header))
  /\ UNCHANGED <<WEBHOOK_SECRET, needsText, db, tasks>>

\* A POST is dispatched: the handler logs the request and checks the secret;
\* without one it raises 500, otherwise it suspends in `await request.body()`.
Arrive(sig_header) ==
  /\ Len(reqs) < MaxReq
  /\ reqs' = Append(reqs,
       IF WEBHOOK_SECRET \in {None, ""}
         THEN [Pending(sig_header) EXCEPT
                 !.pc = "done", !.status = 500,
                 !.body = [detail |-> "Webhook secret not configured"],
                 !.log = @ \o <<"error: Webhook secret not configured">>]
         ELSE Pending(sig_header))
  /\ UNCHANGED <<WEBHOOK_SECRET, needsText, db, tasks>>

\* request.body() returns payload: the rest of the handler runs to its
\* response.
Resume(r, payload, fault) ==
  /\ r \in 1..Len(reqs)
  /\ reqs[r].pc = "await_body"
  /\ LET o == Callback(r, payload, reqs[r].sig_header, fault)
     IN  /\ reqs' = [reqs EXCEPT ![r] =
                [@ EXCEPT !.pc = "done", !.status = o.status,
                          !.body = o.body, !.bodyRead = TRUE,
                          !.utf8 = payload.utf8, !.calls = o.calls,
                          !.event_id = o.event_id,
                          !.event_type = o.event_type,
                          !.checked = o.checked, !.log = @ \o o.log]]
         /\ db' = o.db
         /\ tasks' = o.tasks
  /\ UNCHANGED <<WEBHOOK_SECRET, needsText>>

\* -------------------------------------------------- Background Processor
\* The nested field is tried before the direct one.
ExtractEmailNestedFirst(obj, lookup) ==
  IF obj.kind = "null" THEN [email |-> None, lookups |-> 0]
  ELSE LET email == IF obj.details_email # None THEN obj.details_email
                    ELSE obj.customer_email
       IN  IF email = None /\ obj.customer # None
             THEN [email |-> IF lookup = "raise" THEN None ELSE lookup,
                   lookups |-> 1]
             ELSE [email |-> email, lookups |-> 0]

\* _extract_email_from_event_object(obj): the email, or None, and the
\* number of stripe.Customer.retrieve calls made.  obj = None makes
\* obj.get raise inside the try, which returns None.
ExtractEmail(obj, lookup) ==
  IF obj.kind = "null" THEN [email |-> None, lookups |-> 0]
  ELSE LET email == IF obj.customer_email # None THEN obj.customer_email
                    ELSE obj.details_email
       IN  IF email = None /\ obj.customer # None
             THEN [email |-> IF lookup = "raise" THEN None ELSE lookup,
                   lookups |-> 1]
             ELSE [email |-> email, lookups |-> 0]

\* The second operand is taken whatever the first.
OrSecond(x, y) == y

\* `x or y` on values where None is the only falsy one.
Or(x, y) == IF x # None THEN x ELSE y

\* An exception of a handler is not caught: it leaves the function.
DispatchUncaught(t, fetched, lookup) ==
  LET done == [t EXCEPT !.state = "done"]
      start == <<"info: Processing event", t.event_id, t.event_type>>
      e == ExtractEmail(fetched, lookup)
  IN  IF t.event_type \in {CHECKOUT, PAYMENT} /\ fetched.kind = "null"
        THEN [done EXCEPT !.raised = TRUE, !.log = <<start>>]
      ELSE IF t.event_type = CHECKOUT
        THEN [done EXCEPT
                !.lookups = e.lookups,
                !.log = <<start, <<"info: Checkout completed",
                                   Or(e.email, "unknown"), fetched.id>>>>]
      ELSE IF t.event_type = PAYMENT
        THEN [done EXCEPT
                !.log = <<start, <<"info: Payment succeeded",
                                   Or(fetched.amount_received, fetched.amount),
                                   fetched.currency, fetched.id>>>>]
      ELSE [done EXCEPT
              !.log = <<start, <<"info: Unhandled event type", t.event_type>>>>]

\* The second test is an `if`, not an `elif`: its else branch also runs for
\* checkout events.
DispatchIfNotElif(t, fetched, lookup) ==
  LET done == [t EXCEPT !.state = "done"]
      crashed == <<"exception: Handler crashed", t.event_id, t.event_type>>
      start == <<"info: Processing event", t.event_id, t.event_type>>
      unhandled == <<"info: Unhandled event type", t.event_type>>
      e == ExtractEmail(fetched, lookup)
  IN  IF t.event_type = CHECKOUT
        THEN [done EXCEPT
                !.lookups = e.lookups,
                !.log = IF fetched.kind = "null" THEN <<start, crashed>>
                        ELSE <<start, <<"info: Checkout completed",
                                        Or(e.email, "unknown"), fetched.id>>,
                               unhandled>>]
      ELSE IF t.event_type = PAYMENT
        THEN [done EXCEPT
                !.log = <<start,
                          IF fetched.kind = "null" THEN crashed
                          ELSE <<"info: Payment succeeded",
                                 Or(fetched.amount_received, fetched.amount),
                                 fetched.currency, fetched.id>>>>]
      ELSE [done EXCEPT !.log = <<start, unhandled>>]

\* The second half of process_event_record, once the re-fetch has yielded
\* obj: the start line, then the branch of the event type inside the try
\* whose except clause logs a crash of the handler.
Dispatch(t, fetched, lookup) ==
  LET done == [t EXCEPT !.state = "done"]
      crashed == <<"exception: Handler crashed", t.event_id, t.event_type>>
      start == <<"info: Processing event", t.event_id, t.event_type>>
      e == ExtractEmail(fetched, lookup)
  IN  IF t.event_type = CHECKOUT
        THEN [done EXCEPT
                !.lookups = e.lookups,
                !.log = <<start,
                          IF fetched.kind = "null" THEN crashed
                          ELSE <<"info: Checkout completed",
                                 Or(e.email, "unknown"), fetched.id>>>>]
      ELSE IF t.event_type = PAYMENT
        THEN [done EXCEPT
                !.log = <<start,
                          IF fetched.kind = "null" THEN crashed
                          ELSE <<"info: Payment succeeded",
                                 Or(fetched.amount_received, fetched.amount),
                                 fetched.currency, fetched.id>>>>]
      ELSE [done EXCEPT
              !.log = <<start, <<"info: Unhandled event type", t.event_type>>>>]

\* A failed re-fetch leaves the task scheduled, to be tried again.
process_event_record_retry(t, fetched, lookup) ==
  IF fetched.kind \in {"raise", "nodata"}
    THEN [t EXCEPT !.log =
            <<<<"exception: Failed to retrieve event", t.event_id>>>>]
  ELSE Dispatch(t, fetched, lookup)

\* process_event_record(event_id, event_type) on what the re-fetch yields:
\* the task record with the lines it logged.
process_event_record(t, fetched, lookup) ==
  IF fetched.kind \in {"raise", "nodata"}
    THEN [t EXCEPT !.state = "done",
                   !.log = <<<<"exception: Failed to retrieve event",
                               t.event_id>>>>]
  ELSE Dispatch(t, fetched, lookup)

\* The task runs as part of the request: a failed re-fetch turns the
\* response of the request into an error.
RunTaskInline(i, fetched, lookup) ==
  /\ i \in 1..Len(tasks)
  /\ tasks[i].state = "scheduled"
  /\ tasks' = [tasks EXCEPT ![i] = process_event_record(@, fetched, lookup)]
  /\ reqs' = [reqs EXCEPT ![tasks[i].req] =
                IF fetched.kind \in {"raise", "nodata"}
                  THEN [@ EXCEPT !.status = 500,
                                 !.body = [detail |-> "Webhook processing error"]]
                  ELSE @]
  /\ UNCHANGED <<WEBHOOK_SECRET, needsText, db>>

\* A scheduled task runs, after the response of its request.
RunTask(i, fetched, lookup) ==
  /\ i \in 1..Len(tasks)
  /\ tasks[i].state = "scheduled"
  /\ reqs[tasks[i].req].pc = "done"
  /\ tasks' = [tasks EXCEPT ![i] = process_event_record(@, fetched, lookup)]
  /\ UNCHANGED <<WEBHOOK_SECRET, needsText, db, reqs>>

\* ------------------------------------------------------------ the system
Init ==
  /\ WEBHOOK_SECRET \in {None, "", "whsec_A"}
  /\ needsText \in BOOLEAN
  /\ db = <<>>
  /\ reqs = <<>>
  /\ tasks = <<>>

Next ==
  \/ \E h \in Headers : Arrive(h)
  \/ \E r \in 1..MaxReq, p \in Payloads, f \in StoreFaults : Resume(r, p, f)
  \/ \E i \in 1..MaxReq, f \in Fetched, l \in Lookups : RunTask(i, f, l)

Spec == Init /\ [][Next]_vars

\* Deferred tasks are run by the server once their response has been sent.
FairSpec == Spec /\ \A i \in 1..MaxReq : WF_vars(\E f \in Fetched, l \in Lookups : RunTask(i, f, l))

\* ------------------------------------------------------ process restarts
\* The store is kept in memory only: a restart starts from an empty one.
RestartLosesStore ==
  /\ reqs' = [r \in 1..Len(reqs) |->
                IF reqs[r].pc = "await_body"
                  THEN [reqs[r] EXCEPT !.pc = "aborted"] ELSE reqs[r]]
  /\ tasks' = [i \in 1..Len(tasks) |->
                 IF tasks[i].state = "scheduled"
                   THEN [tasks[i] EXCEPT !.state = "lost"] ELSE tasks[i]]
  /\ db' = <<>>
  /\ UNCHANGED <<WEBHOOK_SECRET, needsText>>

\* The process stops and starts again: the requests in flight and the
\* tasks not yet run are gone with the process; db = TinyDB(DB_FILE) opens
\* the same file, which holds every record whose insert returned.
Restart ==
  /\ reqs' = [r \in 1..Len(reqs) |->
                IF reqs[r].pc = "await_body"
                  THEN [reqs[r] EXCEPT !.pc = "aborted"] ELSE reqs[r]]
  /\ tasks' = [i \in 1..Len(tasks) |->
                 IF tasks[i].state = "scheduled"
                   THEN [tasks[i] EXCEPT !.state = "lost"] ELSE tasks[i]]
  /\ UNCHANGED <<WEBHOOK_SECRET, needsText, db>>

RestartNext == Next \/ Restart

RestartSpec == Init /\ [][RestartNext]_vars

\* ------------------------------------------ the Background Processor alone
\* The request that admitted event (event_id, event_type), once answered.
AdmittedRequest(event_id, event_type) ==
  [Pending("whsec_A") EXCEPT
     !.pc = "done", !.status = AdmittedResponse.status,
     !.body = AdmittedResponse.body, !.bodyRead = TRUE, !.utf8 = TRUE,
     !.calls = IF needsText THEN 2 ELSE 1, !.event_id = event_id,
     !.event_type = event_type, !.checked = "new"]

\* Two events have been admitted, one after the other; their tasks are
\* scheduled.
TaskInit ==
  /\ WEBHOOK_SECRET = "whsec_A"
  /\ needsText \in BOOLEAN
  /\ \E t1 \in Types, t2 \in Types :
       /\ db = Insert(Insert(<<>>, "evt_1", t1), "evt_2", t2)
       /\ tasks = AddTask(AddTask(<<>>, "evt_1", t1, 1), "evt_2", t2, 2)
       /\ reqs = <<AdmittedRequest("evt_1", t1), AdmittedRequest("evt_2", t2)>>

TaskNext ==
  \E i \in 1..Len(tasks), f \in AllFetched, l \in AllLookups : RunTask(i, f, l)

TaskSpec == TaskInit /\ [][TaskNext]_vars

\* ================================================================ claims
DoneReqs == {r \in 1..Len(reqs) : reqs[r].pc = "done"}

Configured == WEBHOOK_SECRET \notin {None, ""}

\* The requests answered 200 for event id e.
Answered(e) ==
  {r \in DoneReqs : reqs[r].status = 200 /\ reqs[r].event_id = e}

\* A 200 answer that is not marked as a duplicate.
NotDuplicate(r) ==
  /\ reqs[r].status = 200
  /\ ~("duplicate" \in DOMAIN reqs[r].body /\ reqs[r].body.duplicate)

\* The requests for which db.contains(e) returned False.
Passed(e) ==
  {r \in DoneReqs : reqs[r].event_id = e /\ reqs[r].checked = "new"}

\* A store operation raised in a request for e.
StoreRaised(e) ==
  \E r \in DoneReqs : reqs[r].event_id = e /\ reqs[r].status = 500

Records(e) == {i \in 1..Len(db) : db[i].event_id = e}

TasksFor(e) == {i \in 1..Len(tasks) : tasks[i].event_id = e}

\* C1: for every event id, as soon as one validly signed request for it has
\* been answered 200, exactly one of the answered requests is answered as
\* not a duplicate and every other one carries duplicate=true, whatever the
\* interleaving; and unless a store operation raised (which ends that
\* request in 500), no two requests for the id saw db.contains return False.
C1_ExactlyOneAdmission ==
  \A e \in Ids :
    LET fresh == {r \in Answered(e) : NotDuplicate(r)}
    IN  /\ Cardinality(fresh) <= 1
        /\ Answered(e) # {} => Cardinality(fresh) = 1
        /\ \A r \in Answered(e) :
             /\ reqs[r].sig_header = WEBHOOK_SECRET
             /\ r \in fresh <=> reqs[r].checked = "new"
             /\ r \notin fresh => reqs[r].body.duplicate = TRUE
        /\ ~StoreRaised(e) => Cardinality(Passed(e)) <= 1

\* Every delivered request carried the same id under a valid signature, and
\* all have been answered: one admission, the rest duplicates.
C1_Witness ==
  /\ Len(reqs) = MaxReq
  /\ Answered("evt_1") = 1..MaxReq
  /\ Cardinality({r \in Answered("evt_1") : NotDuplicate(r)}) = 1
  /\ \E r \in Answered("evt_1") : reqs[r].body = DuplicateResponse.body

\* C2: the Event Store never holds two records with the same event_id.
C2_OneRecordPerId ==
  \A e \in Ids : Cardinality(Records(e)) <= 1

\* A second delivery of a stored id has been handled and the store still
\* holds the one record of that id.
C2_Witness ==
  /\ Cardinality(Records("evt_2")) = 1
  /\ \E r \in DoneReqs :
       reqs[r].event_id = "evt_2" /\ reqs[r].checked = "seen"

\* C3: for every event id, add_task is called at most once, so
\* process_event_record runs at most once for it, however often the event
\* is delivered again.
C3_TaskAtMostOnce ==
  \A e \in Ids : Cardinality(TasksFor(e)) <= 1

\* The task of an event has run, and a later delivery of the event has been
\* answered as a duplicate.
C3_Witness ==
  \E i \in 1..Len(tasks), r \in DoneReqs :
    /\ tasks[i].state = "done"
    /\ r > tasks[i].req
    /\ reqs[r].event_id = tasks[i].event_id
    /\ reqs[r].checked = "seen"

\* The store holds the record {event_id, type} of the event of request r.
Stored(r) ==
  \E i \in 1..Len(db) :
    db[i] = [event_id |-> reqs[r].event_id, type |-> reqs[r].event_type]

\* process_event_record has been invoked for the task request r scheduled,
\* with the id and type of r's event.
Invoked(r) ==
  \E i \in 1..Len(tasks) :
    /\ tasks[i].req = r
    /\ tasks[i].state = "done"
    /\ tasks[i].event_id = reqs[r].event_id
    /\ tasks[i].event_type = reqs[r].event_type

AdmittedReq(r) == r \in DoneReqs /\ NotDuplicate(r)

\* C4: when a request is answered as not a duplicate, the store holds the
\* record of its event at that moment and ever after, and, the deferred
\* tasks being run fairly, process_event_record is eventually invoked with
\* the id and type of that event.
C4_AdmittedIsStoredAndProcessed ==
  /\ [](\A r \in DoneReqs : NotDuplicate(r) => Stored(r))
  /\ \A r \in 1..MaxReq : AdmittedReq(r) ~> Invoked(r)

\* The checkout event of an admitted request is in the store and its task
\* has run.
C4_Witness ==
  \E r \in DoneReqs :
    /\ NotDuplicate(r)
    /\ reqs[r].event_type = CHECKOUT
    /\ Stored(r)
    /\ Invoked(r)

\* C5: every 200 response carries received=true and a boolean duplicate
\* field: false for the request that admitted the event, true for a request
\* whose event id was already stored.
C5_ResponseHasDuplicateField ==
  \A r \in DoneReqs :
    reqs[r].status = 200 =>
      /\ reqs[r].body.received = TRUE
      /\ "duplicate" \in DOMAIN reqs[r].body
      /\ reqs[r].body.duplicate = (reqs[r].checked = "seen")

\* C6: a request is answered 200 only when the store holds a record of its
\* event id; a request whose insert raised is not answered 200.
C6_NoSuccessBeforeCommit ==
  \A r \in DoneReqs :
    /\ reqs[r].status = 200 => Contains(db, reqs[r].event_id)
    /\ (reqs[r].checked = "new" /\ ~Contains(db, reqs[r].event_id))
         => reqs[r].status = 500

\* One delivery of an event failed in db.insert and was answered 500; the
\* next delivery of it was admitted and answered 200.
C6_Witness ==
  \E r, q \in DoneReqs :
    /\ r < q
    /\ reqs[r].event_id = reqs[q].event_id
    /\ reqs[r].checked = "new" /\ reqs[r].status = 500
    /\ reqs[q].checked = "new" /\ reqs[q].status = 200
    /\ Cardinality(Records(reqs[q].event_id)) = 1

\* C7: without a configured secret every request is answered 500 'Webhook
\* secret not configured' whatever its header; its body is never read,
\* construct_event is never called, nothing is stored and no task is
\* scheduled.
C7_NoSecretAlways500 ==
  ~Configured =>
    /\ db = <<>>
    /\ tasks = <<>>
    /\ \A r \in 1..Len(reqs) :
         /\ reqs[r].pc = "done"
         /\ reqs[r].status = 500
         /\ reqs[r].body = [detail |-> "Webhook secret not configured"]
         /\ ~reqs[r].bodyRead
         /\ reqs[r].calls = 0

\* Without a secret, a request with no header and one with a signature
\* header have both been answered.
C7_Witness ==
  /\ ~Configured
  /\ \E r, q \in DoneReqs :
       reqs[r].sig_header = None /\ reqs[q].sig_header \in Secrets

MissingHeader(r) == reqs[r].sig_header \in {None, ""}

\* C8: with the secret configured, a request without a signature header is
\* answered 400 'Missing stripe-signature header' whatever its body holds;
\* construct_event is not called and the step that answers it leaves the
\* store and the task list as they were.
C8_MissingHeaderIs400 ==
  /\ [](Configured =>
          \A r \in DoneReqs :
            MissingHeader(r) =>
              /\ reqs[r].status = 400
              /\ reqs[r].body = [detail |-> "Missing stripe-signature header"]
              /\ reqs[r].calls = 0)
  /\ [][\A r \in 1..Len(reqs) :
          (MissingHeader(r) /\ reqs[r].pc = "await_body"
             /\ reqs'[r].pc = "done")
          => (db' = db /\ tasks' = tasks)]_vars

\* A request without header and with an undecodable body has been answered
\* 400 while the store holds a record and a task is scheduled.
C8_Witness ==
  /\ Configured
  /\ Len(db) = 1 /\ Len(tasks) = 1
  /\ \E r \in DoneReqs :
       /\ MissingHeader(r)
       /\ reqs[r].bodyRead /\ ~reqs[r].utf8
       /\ reqs[r].status = 400

\* C9: a request whose body does not decode as UTF-8 is answered 400, not
\* 500.
C9_UndecodableIs400 ==
  \A r \in DoneReqs :
    (reqs[r].bodyRead /\ ~reqs[r].utf8) => reqs[r].status = 400

\* C10: when a validly signed, well-formed event whose id is in the store
\* is handled (the store not raising), whatever type it carries, the
\* response is 200 {"received": true, "duplicate": true} and the store and
\* the task list are left exactly as they were.
C10_DuplicateChangesNothing ==
  [][\A r \in 1..Len(reqs), p \in Payloads :
       (/\ reqs[r].pc = "await_body"
        /\ reqs'[r].pc = "done"
        /\ reqs[r].sig_header = WEBHOOK_SECRET
        /\ p.utf8 /\ p.id # None /\ p.type # None
        /\ Contains(db, p.id)
        /\ Resume(r, p, "none"))
       => /\ reqs'[r].status = 200
          /\ reqs'[r].body = [received |-> TRUE, duplicate |-> TRUE]
          /\ db' = db
          /\ tasks' = tasks]_vars

\* A stored event has been delivered again with another type and answered
\* as a duplicate.
C10_Witness ==
  \E r \in DoneReqs, i \in 1..Len(db) :
    /\ reqs[r].checked = "seen"
    /\ reqs[r].body = [received |-> TRUE, duplicate |-> TRUE]
    /\ db[i].event_id = reqs[r].event_id
    /\ db[i].type # reqs[r].event_type
    /\ Len(db) = 1 /\ Len(tasks) = 1

\* ------------------------------------------- claims on the task processor
DoneTasks == {i \in 1..Len(tasks) : tasks[i].state = "done"}

\* The re-fetch raised (the remote call, or .get on a null "data").
FetchFails(f) == f.kind \in {"raise", "nodata"}

FetchFailureLine(i) == <<"exception: Failed to retrieve event", tasks[i].event_id>>

StartLine(i) ==
  <<"info: Processing event", tasks[i].event_id, tasks[i].event_type>>

CrashLine(i) ==
  <<"exception: Handler crashed", tasks[i].event_id, tasks[i].event_type>>

\* Task i logged a line of the given kind.
Logged(i, kind) ==
  \E k \in 1..Len(tasks[i].log) : tasks[i].log[k][1] = kind

\* C11 as claimed: a payment_intent.succeeded task raises nothing and logs
\* the amount and currency even when the re-fetch of the event failed.
C11_PaymentLogsAmountDespiteFetchFailure ==
  \A i \in DoneTasks :
    tasks[i].event_type = PAYMENT =>
      /\ ~tasks[i].raised
      /\ Logged(i, "exception: Failed to retrieve event")
           => Logged(i, "info: Payment succeeded")

\* C11 amended: a payment_intent.succeeded task never raises; when the
\* re-fetch fails it logs the fetch failure and nothing else; when the
\* re-fetch yields an object it logs amount_received (or else amount),
\* the currency and the object id.
C11_PaymentLogsAmountOrFetchFailure ==
  [][\A i \in 1..Len(tasks), f \in AllFetched, l \in AllLookups :
       (/\ tasks[i].state = "scheduled"
        /\ tasks[i].event_type = PAYMENT
        /\ RunTask(i, f, l))
       => /\ tasks'[i].state = "done"
          /\ ~tasks'[i].raised
          /\ FetchFails(f) => tasks'[i].log = <<FetchFailureLine(i)>>
          /\ f.kind = "object" =>
               tasks'[i].log =
                 <<StartLine(i),
                   <<"info: Payment succeeded",
                     IF f.amount_received # None THEN f.amount_received
                     ELSE f.amount,
                     f.currency, f.id>>>>]_vars

\* One payment task logged 500 usd, the other one only its fetch failure.
C11_Witness ==
  \E i, j \in DoneTasks :
    /\ tasks[i].event_type = PAYMENT /\ tasks[j].event_type = PAYMENT
    /\ Len(tasks[i].log) = 2
    /\ tasks[i].log[2] = <<"info: Payment succeeded", "500", "usd", "obj_1">>
    /\ tasks[j].log = <<FetchFailureLine(j)>>

\* The re-fetch of event e failed: its task logged the failure and no more.
FetchFailedFor(e) ==
  \E i \in TasksFor(e) : tasks[i].log = <<FetchFailureLine(i)>>

\* The dispatch of process_event_record was reached for event e.
HandlerRan(e) ==
  \E i \in TasksFor(e) : Logged(i, "info: Processing event")

\* C12: once the re-fetch of an admitted event has failed, its task is done
\* without having reached the dispatch, the record of the event stays in
\* the store, no task is ever scheduled for it again, every later delivery
\* that is answered 200 is answered duplicate=true, and no handler ever
\* runs for it.
C12_FetchFailureIsFinal ==
  /\ [](\A e \in Ids :
          FetchFailedFor(e) =>
            /\ \A i \in TasksFor(e) : tasks[i].state = "done"
            /\ ~HandlerRan(e)
            /\ Cardinality(TasksFor(e)) = 1
            /\ Contains(db, e))
  /\ [][\A e \in Ids :
          FetchFailedFor(e) =>
            /\ FetchFailedFor(e)'
            /\ \A r \in 1..Len(reqs) :
                 (reqs[r].pc = "await_body" /\ reqs'[r].event_id = e)
                   => /\ reqs'[r].checked # "new"
                      /\ reqs'[r].status = 200
                           => reqs'[r].body = [received |-> TRUE,
                                               duplicate |-> TRUE]]_vars

\* The re-fetch of an event failed, and another delivery of the event has
\* been answered as a duplicate.
C12_Witness ==
  \E e \in Ids, r \in DoneReqs :
    /\ FetchFailedFor(e)
    /\ ~HandlerRan(e)
    /\ reqs[r].event_id = e
    /\ reqs[r].checked = "seen"
    /\ reqs[r].status = 200

\* C13: whatever the event and whatever the re-fetch yields, the task ends
\* done and no exception leaves process_event_record: a failure of the
\* re-fetch (the call raising, or a null "data") is logged as such, and a
\* handler failing on a null data object is logged as a crashed handler.
C13_ProcessorNeverRaises ==
  [][\A i \in 1..Len(tasks), f \in AllFetched, l \in AllLookups :
       (tasks[i].state = "scheduled" /\ RunTask(i, f, l))
       => /\ tasks'[i].state = "done"
          /\ ~tasks'[i].raised
          /\ FetchFails(f) => tasks'[i].log = <<FetchFailureLine(i)>>
          /\ (f.kind = "null" /\ tasks[i].event_type \in {CHECKOUT, PAYMENT})
               => tasks'[i].log = <<StartLine(i), CrashLine(i)>>]_vars

\* A checkout handler and a payment handler have both crashed on a null
\* data object, and both tasks are done without an exception.
C13_Witness ==
  \E i, j \in DoneTasks :
    /\ tasks[i].event_type = CHECKOUT /\ tasks[j].event_type = PAYMENT
    /\ tasks[i].log = <<StartLine(i), CrashLine(i)>>
    /\ tasks[j].log = <<StartLine(j), CrashLine(j)>>
    /\ ~tasks[i].raised /\ ~tasks[j].raised

\* The kinds of line each dispatch branch can end in.
BranchLines(event_type) ==
  IF event_type = CHECKOUT
    THEN {"info: Checkout completed", "exception: Handler crashed"}
  ELSE IF event_type = PAYMENT
    THEN {"info: Payment succeeded", "exception: Handler crashed"}
  ELSE {"info: Unhandled event type"}

\* C14: a task whose re-fetch succeeded runs exactly one dispatch branch,
\* the one of its event type; for a type other than the two handled ones it
\* logs the start line and the 'Unhandled event type' notice and nothing
\* else, makes no customer lookup and raises nothing.
C14_UnhandledTypeOnlyLogs ==
  [][\A i \in 1..Len(tasks), f \in AllFetched, l \in AllLookups :
       (tasks[i].state = "scheduled" /\ ~FetchFails(f) /\ RunTask(i, f, l))
       => /\ Len(tasks'[i].log) = 2
          /\ tasks'[i].log[1] = StartLine(i)
          /\ tasks'[i].log[2][1] \in BranchLines(tasks[i].event_type)
          /\ tasks[i].event_type \notin {CHECKOUT, PAYMENT} =>
               /\ tasks'[i].log[2] = <<"info: Unhandled event type",
                                       tasks[i].event_type>>
               /\ tasks'[i].lookups = 0
               /\ ~tasks'[i].raised]_vars

\* A task of an unknown type has logged the notice, next to a checkout task
\* that made a customer lookup.
C14_Witness ==
  \E i, j \in DoneTasks :
    /\ tasks[i].event_type = "some.future.event"
    /\ tasks[i].log = <<StartLine(i),
                        <<"info: Unhandled event type", "some.future.event">>>>
    /\ tasks[i].lookups = 0
    /\ tasks[j].event_type = CHECKOUT
    /\ tasks[j].lookups = 1

\* C15: the store outlives the process: a record once in the store stays
\* there across restarts, so every event answered 200 is in the store at
\* every later point, a delivery of it after a restart finds it and is
\* answered as a duplicate, and no event is admitted twice.
C15_StoreSurvivesRestart ==
  /\ [](\A e \in Ids :
          /\ Answered(e) # {} => Contains(db, e)
          /\ Cardinality({r \in Answered(e) : NotDuplicate(r)}) <= 1
          /\ Cardinality(Records(e)) <= 1)
  /\ [][\A e \in Ids : Contains(db, e) => Contains(db', e)]_vars

\* An event was admitted, the process restarted before its task ran, and a
\* delivery of the event has been answered as a duplicate.
C15_Witness ==
  \E i \in 1..Len(tasks), r \in DoneReqs :
    /\ tasks[i].state = "lost"
    /\ NotDuplicate(tasks[i].req)
    /\ r # tasks[i].req
    /\ reqs[r].event_id = tasks[i].event_id
    /\ reqs[r].body = [received |-> TRUE, duplicate |-> TRUE]

\* Request r carried a signature made with the configured secret and was
\* answered 200 for the event (event_id, event_type).
VerifiedBy(r, event_id, event_type) ==
  /\ r \in DoneReqs
  /\ Configured
  /\ reqs[r].sig_header = WEBHOOK_SECRET
  /\ reqs[r].status = 200
  /\ reqs[r].event_id = event_id
  /\ reqs[r].event_type = event_type

\* C16: every record of the store and every scheduled task carries an id
\* and a type, both present, of an event delivered under a signature made
\* with the configured secret; a decodable request signed with another
\* secret is answered 400 'Invalid signature', and a verified event that
\* lacks id or type is answered 400 'Malformed event', both leaving the
\* store and the task list as they were.
C16_OnlyVerifiedEventsAdmitted ==
  /\ [](/\ \A j \in 1..Len(db) :
             /\ db[j].event_id \in Ids /\ db[j].type \in Types
             /\ \E r \in DoneReqs : VerifiedBy(r, db[j].event_id, db[j].type)
        /\ \A i \in 1..Len(tasks) :
             /\ tasks[i].event_id \in Ids /\ tasks[i].event_type \in Types
             /\ VerifiedBy(tasks[i].req, tasks[i].event_id,
                           tasks[i].event_type))
  /\ [][\A r \in 1..Len(reqs), p \in Payloads :
          (/\ reqs[r].pc = "await_body"
           /\ reqs'[r].pc = "done"
           /\ ~MissingHeader(r)
           /\ p.utf8
           /\ reqs[r].sig_header # WEBHOOK_SECRET \/ p.id = None
                \/ p.type = None
           /\ Resume(r, p, "none"))
          => /\ reqs'[r].status = 400
             /\ reqs'[r].body =
                  [detail |-> IF reqs[r].sig_header # WEBHOOK_SECRET
                                THEN "Invalid signature"
                                ELSE "Malformed event (missing id/type)"]
             /\ db' = db
             /\ tasks' = tasks]_vars

\* The store holds the record of a verified event, and a request signed
\* with another secret has been answered 400 'Invalid signature'.
C16_Witness ==
  /\ Len(db) = 1 /\ Len(tasks) = 1
  /\ VerifiedBy(tasks[1].req, db[1].event_id, db[1].type)
  /\ \E r \in DoneReqs :
       /\ reqs[r].sig_header = "whsec_B"
       /\ reqs[r].status = 400
       /\ reqs[r].body = [detail |-> "Invalid signature"]

\* C17: every task ever scheduled has the id and type of a record of the
\* store, committed by the request that scheduled it, which checked the id
\* as new and was answered 200; and the step that schedules a task is the
\* step that commits that record.
C17_TaskOnlyAfterRecord ==
  /\ [](\A i \in 1..Len(tasks) :
          /\ \E j \in 1..Len(db) :
               db[j] = [event_id |-> tasks[i].event_id,
                        type |-> tasks[i].event_type]
          /\ tasks[i].req \in DoneReqs
          /\ reqs[tasks[i].req].checked = "new"
          /\ reqs[tasks[i].req].status = 200
          /\ reqs[tasks[i].req].event_id = tasks[i].event_id)
  /\ [][Len(tasks') > Len(tasks) =>
          /\ Len(tasks') = Len(tasks) + 1
          /\ Len(db') = Len(db) + 1
          /\ db'[Len(db')] =
               [event_id |-> tasks'[Len(tasks')].event_id,
                type |-> tasks'[Len(tasks')].event_type]]_vars

\* Two events of different types have been admitted: two records, two
\* tasks, pairwise equal in id and type.
C17_Witness ==
  /\ Len(db) = 2 /\ Len(tasks) = 2
  /\ db[1].type # db[2].type
  /\ \A i \in 1..2 :
       db[i] = [event_id |-> tasks[i].event_id, type |-> tasks[i].event_type]

ClientErrors ==
  {"Missing stripe-signature header", "Invalid signature",
   "Malformed event (missing id/type)"}

\* C18: with the secret configured, a request in which db.contains or
\* db.insert raises is answered 500 'Webhook processing error', and so is
\* every request answered 500; such a request schedules no task and leaves
\* the store as it was.  The 400 answers keep their own detail: none of
\* them is turned into 500.
C18_UnexpectedErrorIs500 ==
  /\ [](Configured =>
          \A r \in DoneReqs :
            /\ reqs[r].status \in {200, 400, 500}
            /\ reqs[r].status = 500
                 => reqs[r].body = [detail |-> "Webhook processing error"]
            /\ reqs[r].status = 400
                 => /\ DOMAIN reqs[r].body = {"detail"}
                    /\ reqs[r].body.detail \in ClientErrors
            /\ MissingHeader(r) => reqs[r].status = 400)
  /\ [][\A r \in 1..Len(reqs) :
          (reqs[r].pc = "await_body" /\ reqs'[r].status = 500)
            => (tasks' = tasks /\ db' = db)]_vars
  /\ [][\A r \in 1..Len(reqs), p \in Payloads, f \in {"contains", "insert"} :
          (/\ reqs[r].pc = "await_body"
           /\ reqs'[r].pc = "done"
           /\ reqs[r].sig_header = WEBHOOK_SECRET
           /\ p.utf8 /\ p.id # None /\ p.type # None
           /\ f = "insert" => ~Contains(db, p.id)
           /\ Resume(r, p, f))
          => /\ reqs'[r].status = 500
             /\ reqs'[r].body = [detail |-> "Webhook processing error"]
             /\ tasks' = tasks
             /\ db' = db]_vars

\* db.insert raised in one request, answered 500 with nothing stored or
\* scheduled, and a request without header was answered 400.
C18_Witness ==
  /\ db = <<>> /\ tasks = <<>>
  /\ \E r, q \in DoneReqs :
       /\ reqs[r].checked = "new"
       /\ reqs[r].status = 500
       /\ reqs[r].body = [detail |-> "Webhook processing error"]
       /\ MissingHeader(q)
       /\ reqs[q].status = 400

\* C19: a task exists only once its request has been answered 200
\* {"received": true}; process_event_record starts only after that answer,
\* and the step in which it runs, however it ends, changes no response; a
\* task that has not run leaves the answer as it is.
C19_ResponseDoesNotWaitForTask ==
  /\ [](\A i \in 1..Len(tasks) :
          /\ tasks[i].req \in DoneReqs
          /\ reqs[tasks[i].req].status = 200
          /\ reqs[tasks[i].req].body = [received |-> TRUE])
  /\ [][\A i \in 1..Len(tasks) :
          (tasks[i].state = "scheduled" /\ tasks'[i].state # "scheduled")
            => /\ reqs[tasks[i].req].pc = "done"
               /\ reqs[tasks[i].req].status = 200
               /\ reqs' = reqs]_vars

\* Of two admitted events, one task failed at its re-fetch and the other
\* has not run; both requests stand answered 200.
C19_Witness ==
  \E i, j \in 1..Len(tasks) :
    /\ tasks[i].state = "done"
    /\ tasks[i].log = <<FetchFailureLine(i)>>
    /\ tasks[j].state = "scheduled"
    /\ reqs[tasks[i].req].status = 200
    /\ reqs[tasks[j].req].status = 200

\* C20: in a checkout task, _extract_email_from_event_object never raises:
\* the email logged is customer_email when the object has one, else
\* customer_details.email when it has one, both without a customer lookup;
\* the lookup is made exactly when both are absent and the object names a
\* customer, and gives the customer's email; when the lookup raises or
\* finds none, when nothing names a customer, or when the object is null,
\* the result is None (logged as 'unknown', or followed by the crash of the
\* handler on the null object).
C20_ExtractEmailOrder ==
  [][\A i \in 1..Len(tasks), f \in AllFetched, l \in AllLookups :
       (/\ tasks[i].state = "scheduled"
        /\ tasks[i].event_type = CHECKOUT
        /\ ~FetchFails(f)
        /\ RunTask(i, f, l))
       => /\ ~tasks'[i].raised
          /\ f.kind = "null" =>
               /\ tasks'[i].lookups = 0
               /\ tasks'[i].log = <<StartLine(i), CrashLine(i)>>
          /\ f.kind = "object" =>
               LET email == tasks'[i].log[2][2]
                   n == tasks'[i].lookups
               IN  /\ tasks'[i].log[2][1] = "info: Checkout completed"
                   /\ f.customer_email # None =>
                        (email = f.customer_email /\ n = 0)
                   /\ (f.customer_email = None /\ f.details_email # None) =>
                        (email = f.details_email /\ n = 0)
                   /\ (f.customer_email = None /\ f.details_email = None
                         /\ f.customer # None) =>
                        /\ n = 1
                        /\ email = IF l \in {"raise", None} THEN "unknown"
                                   ELSE l
                   /\ (f.customer_email = None /\ f.details_email = None
                         /\ f.customer = None) =>
                        (email = "unknown" /\ n = 0)]_vars

\* One checkout task logged the email found by the customer lookup, the
\* other logged the nested email without a lookup.
C20_Witness ==
  \E i, j \in DoneTasks :
    /\ tasks[i].event_type = CHECKOUT /\ tasks[j].event_type = CHECKOUT
    /\ Len(tasks[i].log) = 2 /\ Len(tasks[j].log) = 2
    /\ tasks[i].lookups = 1
    /\ tasks[i].log[2] = <<"info: Checkout completed", "c@x", "obj_1">>
    /\ tasks[j].lookups = 0
    /\ tasks[j].log[2] = <<"info: Checkout completed", "d@x", "obj_1">>
====
